---- MODULE Spec2Model ----
(***************************************************************************)
(* Verification model of the optics ray-propagation library.               *)
(*                                                                         *)
(* Numbers are exact: coordinates are integers, rotations are the          *)
(* orthonormal matrices with entries in {-1, 0, 1}, and every quotient the *)
(* code computes is kept as a fraction [num, den].  A numpy array of N     *)
(* rows is a sequence of length N.  A call is modelled by the record       *)
(* [raised, self, ret]: the exception that left the call ("none" when it   *)
(* returned), the receiver (or argument) object after the call, and the    *)
(* returned value.                                                         *)
(***************************************************************************)
EXTENDS Integers, Sequences, FiniteSets, TLC

VARIABLES
    source,     \* System.source: the source object, NoSource before setSource
    surfaces,   \* System.surfaces: sequence of surface records
    screens,    \* System.screens: sequence of screen records
    rays,       \* System.rays: sequence of RayBundles
    outcome,    \* last System operation: [op, raised], op "configure" or "propagate"
                \* (a propagate also records the bundle generate returned)
    calls,      \* calls the last System operation made on its collaborators, in order
    rb,         \* a RayBundle object under test
    rb0,        \* the RayBundle as it was constructed
    frame,      \* [origin, rotation] of the local frame in use
    ret,        \* value returned by the last call on rb / surf / aperture
    raised,     \* exception raised by the last call ("none" if it returned)
    op,         \* name of the last call made in the unit scenarios
    locals,     \* local variables of the last call that its caller cannot read
    surf,       \* a Surface object under test
    aper,       \* an Aperture object under test
    pts,        \* batch of local 2D points handed to sag / contains
    object,     \* the object handed to display, with its class
    show        \* the show_* keyword arguments handed to display

vars == <<source, surfaces, screens, rays, outcome, calls,
          rb, rb0, frame, ret, raised, op, locals, surf, aper, pts,
          object, show>>

sysvars == <<source, surfaces, screens, rays, outcome, calls>>
rayvars == <<rb, rb0, frame>>
surfvars == <<surf, aper, pts>>
callvars == <<ret, raised, op, locals>>
dispvars == <<object, show>>

None == "None"
NaN == "nan"

----------------------------------------------------------------------------
(* Bounds of the model *)

MaxRays == 2        \* rays per bundle, points per batch
MaxCoord == 2       \* |coordinate| of the local 2D points
MaxRadius == 3      \* |radius| of spheres and apertures
MaxSurfaces == 1    \* surfaces registered on a System
MaxScreens == 2     \* screens registered on a System

----------------------------------------------------------------------------
(* Call results *)

Return(self, value) == [raised |-> "none", self |-> self, ret |-> value]
Raise(self, exc) == [raised |-> exc, self |-> self, ret |-> None]

----------------------------------------------------------------------------
(* Vector and matrix arithmetic used by the numpy expressions *)

Abs(x) == IF x < 0 THEN -x ELSE x

VAdd(a, b) == [i \in 1..3 |-> a[i] + b[i]]
VSub(a, b) == [i \in 1..3 |-> a[i] - b[i]]
VScale(k, a) == [i \in 1..3 |-> k * a[i]]
Dot(a, b) == a[1] * b[1] + a[2] * b[2] + a[3] * b[3]

\* rotation.T
Transpose(m) == [i \in 1..3 |-> [j \in 1..3 |-> m[j][i]]]

\* one row of np.matmul(rows, m): the row vector p times the matrix m
RowTimes(p, m) == [j \in 1..3 |-> p[1] * m[1][j] + p[2] * m[2][j] + p[3] * m[3][j]]

\* np.matmul(rows, m) for an N x 3 array
MatMul(rows, m) == [i \in 1..Len(rows) |-> RowTimes(rows[i], m)]

Identity3 == <<<<1, 0, 0>>, <<0, 1, 0>>, <<0, 0, 1>>>>

MatTimes(a, b) == [i \in 1..3 |-> RowTimes(a[i], b)]

Unit3 == {<<1, 0, 0>>, <<0, 1, 0>>, <<0, 0, 1>>,
          <<-1, 0, 0>>, <<0, -1, 0>>, <<0, 0, -1>>}

\* the orthonormal matrices with integer entries (rows are signed unit vectors)
Rotations == {m \in Unit3 \X Unit3 \X Unit3 : MatTimes(m, Transpose(m)) = Identity3}

\* the rotation of tests/test_system.py, which is its own transpose
TestRotation == <<<<0, 0, 1>>, <<0, -1, 0>>, <<1, 0, 0>>>>

----------------------------------------------------------------------------
(* RayBundle *)

\* the attributes an instance of RayBundle has: its fields and its methods
RayBundleAttrs == {"origins", "directions", "lengths", "wavelengths_m", "powers_w",
                   "display_rays", "normalizeDirections", "localToGlobal", "globalToLocal"}

RayBundle(origins, directions, lengths, wavelengths_m, powers_w, display_rays) ==
    [origins |-> origins, directions |-> directions, lengths |-> lengths,
     wavelengths_m |-> wavelengths_m, powers_w |-> powers_w,
     display_rays |-> display_rays]

NRays(b) == Len(b.origins)

localToGlobal_Clobber(self, origin, rotation) ==
    LET global_origins == [i \in 1..NRays(self) |-> VAdd(RowTimes(self.origins[i], rotation), origin)]
        global_directions == MatMul(self.directions, rotation)
    IN  Return([self EXCEPT !.lengths = [i \in 1..NRays(self) |-> 0]],
               <<global_origins, global_directions>>)

localToGlobal(self, origin, rotation) ==
    LET global_origins == [i \in 1..NRays(self) |-> VAdd(RowTimes(self.origins[i], rotation), origin)]
        global_directions == MatMul(self.directions, rotation)
    IN  Return(self, <<global_origins, global_directions>>)

globalToLocal_NoTranspose(self, origin, rotation) ==
    LET local_origins == [i \in 1..NRays(self) |-> RowTimes(VSub(self.origins[i], origin), rotation)]
        local_directions == MatMul(self.directions, rotation)
    IN  Return(self, <<local_origins, local_directions>>)

globalToLocal(self, origin, rotation) ==
    LET local_origins == [i \in 1..NRays(self) |-> RowTimes(VSub(self.origins[i], origin), Transpose(rotation))]
        local_directions == MatMul(self.directions, Transpose(rotation))
    IN  Return(self, <<local_origins, local_directions>>)

----------------------------------------------------------------------------
(* numpy helpers *)

\* quotients are kept exact
Frac(n, d) == [num |-> n, den |-> d]
FracEq(a, b) == a.num * b.den = b.num * a.den

\* point o + t * d for a fraction t: a vector of fractions
PointAt(o, t, d) == [c \in 1..3 |-> Frac(o[c] * t.den + t.num * d[c], t.den)]

RECURSIVE WhereFrom(_, _)
WhereFrom(flags, i) ==
    IF i > Len(flags) THEN <<>>
    ELSE (IF flags[i] THEN <<i>> ELSE <<>>) \o WhereFrom(flags, i + 1)

\* np.where(flags)[0]: the indices of the true entries, ascending (1-based here)
Where(flags) == WhereFrom(flags, 1)

\* the names looked up on the numpy module by this library that numpy defines
NumpyAttrs == {"abs", "array", "concatenate", "cos", "full", "linalg", "linspace",
               "matmul", "meshgrid", "newaxis", "ones", "pi", "random", "reshape",
               "sin", "sqrt", "sum", "vstack", "where", "zeros", "zeros_like"}

----------------------------------------------------------------------------
(* Screen *)

Screen(origin, rotation, aperture) ==
    [origin |-> origin, rotation |-> rotation, aperture |-> aperture]

\* |x| > 1e-6, written without a fraction
ParallelThresholdInv == 1000000
AboveThreshold(x) == Abs(x) * ParallelThresholdInv > 1

Screen_reset(self) == Return(self, None)

\* The result carries, besides the screen (self), the bundle after the call
\* and the local variable intersection_points as it stands when capture ends.
Screen_capture_Clobber(self, ray_bundle) ==
    LET l == globalToLocal(ray_bundle, self.origin, self.rotation)
    IN  [raised |-> "none", self |-> self, ret |-> None,
         ray_bundle |-> [l.self EXCEPT !.origins = l.ret[1], !.directions = l.ret[2]],
         intersection_points |-> <<>>]

Screen_capture(self, ray_bundle) ==
    LET l == globalToLocal(ray_bundle, self.origin, self.rotation)
        local_origins == l.ret[1]
        local_directions == l.ret[2]
        n == Len(local_origins)
        idx == Where([i \in 1..n |-> AboveThreshold(local_directions[i][3])])
        m == Len(idx)
        t == [k \in 1..m |-> Frac(-local_origins[idx[k]][3], local_directions[idx[k]][3])]
        out(exc, points) ==
            [raised |-> exc, self |-> self, ret |-> None,
             ray_bundle |-> l.self, intersection_points |-> points]
    IN  \* t[idx, np.newaxis]: t has m entries and is indexed by the values of idx
        IF \E k \in 1..m : idx[k] > m THEN out("IndexError", None)
        \* (m, 1) * (n, 3) and (n, 3) + ...: numpy broadcasting
        ELSE IF m = n THEN out("none", [i \in 1..n |-> PointAt(local_origins[i], t[idx[i]], local_directions[i])])
        ELSE IF m = 1 THEN out("none", [i \in 1..n |-> PointAt(local_origins[i], t[idx[1]], local_directions[i])])
        ELSE IF n = 1 THEN out("none", <<>>)
        ELSE out("ValueError", None)

----------------------------------------------------------------------------
(* Apertures and surfaces as objects (their methods follow further down) *)

CircularAperture(radius) == [kind |-> "CircularAperture", radius |-> radius]
RectangularAperture(size_x, size_y) ==
    [kind |-> "RectangularAperture", size_x |-> size_x, size_y |-> size_y]

\* Surface.__init__
Surface(origin, rotation, aperture, index1, index2) ==
    [kind |-> "Surface", origin |-> origin, rotation |-> rotation,
     aperture |-> aperture, index1 |-> index1, index2 |-> index2]

\* SphericalSurface.__init__
SphericalSurface(origin, rotation, aperture, index1, index2, radius) ==
    [kind |-> "SphericalSurface", origin |-> origin, rotation |-> rotation,
     aperture |-> aperture, index1 |-> index1, index2 |-> index2, radius |-> radius]

\* a derived class that implements sag as the docstring of Surface asks, with
\* sag = 0 everywhere (a plane); it inherits everything else from Surface
FlatSurface(origin, rotation, aperture, index1, index2) ==
    [kind |-> "FlatSurface", origin |-> origin, rotation |-> rotation,
     aperture |-> aperture, index1 |-> index1, index2 |-> index2]

----------------------------------------------------------------------------
(* Sources *)

\* the value None of System.source before setSource
NoSource == [kind |-> "NoneType"]

\* Source.__init__
Source(origin, rotation) == [kind |-> "Source", origin |-> origin, rotation |-> rotation]

\* GaussianBeamSource.__init__: the direction is stored as the rotation
GaussianBeamSource(origin, direction, waist_x, waist_y, power_w, wavelength_m) ==
    [kind |-> "GaussianBeamSource", origin |-> origin, rotation |-> direction,
     waist_x |-> waist_x, waist_y |-> waist_y,
     wavelength_m |-> wavelength_m, power_w |-> power_w]

\* a derived class that implements generate as the docstring of Source asks
DerivedSource(origin, rotation) ==
    [kind |-> "DerivedSource", origin |-> origin, rotation |-> rotation]

Source_generate(self, n_rays) == Raise(self, "NotImplementedError")

NumEllipseRays == 12

\* Lines 47-91 build the bundle 'rays' of 1 + 12 + n_rays rays and normalise
\* it; line 92 then looks up rays.transformFromLocalToGlobal, and the lookup
\* raises unless RayBundle has that attribute.  Ray positions are abstracted
\* (every row is the centre ray): no caller ever receives them.
GaussianBeamSource_generate(self, n_rays) ==
    LET total == 1 + NumEllipseRays + n_rays
        rays_ == RayBundle([i \in 1..total |-> <<0, 0, 0>>],
                           [i \in 1..total |-> <<0, 0, 1>>],
                           [i \in 1..total |-> 0],
                           [i \in 1..total |-> self.wavelength_m],
                           [i \in 1..total |->
                               IF i <= 1 + NumEllipseRays THEN Frac(0, 1)
                               ELSE Frac(self.power_w, n_rays)],
                           [i \in 1..(1 + NumEllipseRays) |-> i])
    IN  IF "transformFromLocalToGlobal" \notin RayBundleAttrs
        THEN Raise(self, "AttributeError")
        ELSE Return(self, rays_)

\* the derived source returns the bundle its sampling produced, n_rays rays
\* already expressed in global coordinates
DerivedSource_generate(self, n_rays, sample) == Return(self, sample)

\* source.generate(n_rays), dispatched on the class of the source object
generate(src, n_rays, sample) ==
    IF src.kind = "NoneType" THEN Raise(src, "AttributeError")
    ELSE IF src.kind = "Source" THEN Source_generate(src, n_rays)
    ELSE IF src.kind = "GaussianBeamSource" THEN GaussianBeamSource_generate(src, n_rays)
    ELSE DerivedSource_generate(src, n_rays, sample)

----------------------------------------------------------------------------
(* System *)

Call(fn, screen, exc) == [fn |-> fn, screen |-> screen, raised |-> exc]

\* The two loops of propagate (system.py lines 41-44).  Each call result is
\* handed on as a parameter, so that it is computed once.
RECURSIVE CaptureEach(_, _, _, _, _)
RECURSIVE VisitScreens(_, _, _, _)

\* the inner loop from the point where screen.capture(rs[j]) has ended as c:
\* a raise leaves the loop, a return goes on with the next bundle
AfterCapture(c, i, rs, j, log) ==
    IF c.raised # "none"
    THEN [raised |-> c.raised, screen |-> c.self,
          rays |-> [rs EXCEPT ![j] = c.ray_bundle],
          calls |-> Append(log, Call("capture", i, c.raised))]
    ELSE CaptureEach(c.self, i, [rs EXCEPT ![j] = c.ray_bundle], j + 1,
                     Append(log, Call("capture", i, c.raised)))

\* for rays in self.rays: screen.capture(rays)
CaptureEach(scr, i, rs, j, log) ==
    IF j > Len(rs) THEN [raised |-> "none", screen |-> scr, rays |-> rs, calls |-> log]
    ELSE AfterCapture(Screen_capture(scr, rs[j]), i, rs, j, log)

\* the outer loop from the point where the captures on screen i have ended as c
AfterCaptures(c, scrs, i) ==
    IF c.raised # "none"
    THEN [raised |-> c.raised, screens |-> [scrs EXCEPT ![i] = c.screen],
          rays |-> c.rays, calls |-> c.calls]
    ELSE VisitScreens([scrs EXCEPT ![i] = c.screen], i + 1, c.rays, c.calls)

\* the outer loop from the point where screen.reset() has ended as r
AfterReset(r, scrs, i, rs, log) ==
    AfterCaptures(CaptureEach(r.self, i, rs, 1, Append(log, Call("reset", i, r.raised))),
                  scrs, i)

\* for screen in self.screens: screen.reset(); ...
VisitScreens(scrs, i, rs, log) ==
    IF i > Len(scrs) THEN [raised |-> "none", screens |-> scrs, rays |-> rs, calls |-> log]
    ELSE AfterReset(Screen_reset(scrs[i]), scrs, i, rs, log)

\* the end of propagate, the loop over the screens having ended as v
AfterVisit(v, self) ==
    [raised |-> v.raised,
     self |-> [self EXCEPT !.rays = v.rays, !.screens = v.screens],
     calls |-> v.calls]

\* the result r of propagate together with the bundle generate returned
WithGenerated(r, bundle) ==
    [raised |-> r.raised, self |-> r.self, calls |-> r.calls, generated |-> bundle]

AfterGenerate_Accumulate(g, self) ==
    IF g.raised # "none"
    THEN [raised |-> g.raised, self |-> self,
          calls |-> <<Call("generate", 0, g.raised)>>, generated |-> None]
    ELSE WithGenerated(AfterVisit(VisitScreens(self.screens, 1, self.rays \o <<g.ret>>,
                                               <<Call("generate", 0, g.raised)>>), self),
                       g.ret)

\* propagate from the point where source.generate has ended as g:
\* self.rays = [self.source.generate(n_rays)], which a raise leaves undone
AfterGenerate(g, self) ==
    IF g.raised # "none"
    THEN [raised |-> g.raised, self |-> self,
          calls |-> <<Call("generate", 0, g.raised)>>, generated |-> None]
    ELSE WithGenerated(AfterVisit(VisitScreens(self.screens, 1, <<g.ret>>,
                                               <<Call("generate", 0, g.raised)>>), self),
                       g.ret)

\* System.propagate on the System self = [source, surfaces, screens, rays];
\* 'sample' is what the random sampling of a derived source yields
propagate(self, n_rays, sample) ==
    AfterGenerate(generate(self.source, n_rays, sample), self)

----------------------------------------------------------------------------
(* Aperture.contains *)

Aperture_contains(self, points) == Raise(self, "NotImplementedError")

\* np.norm is looked up on the numpy module, which defines linalg.norm but
\* no top-level norm; were it the Euclidean norm of each row, a row would be
\* inside when sqrt(x^2 + y^2) < radius
CircularAperture_contains(self, points) ==
    IF "norm" \notin NumpyAttrs THEN Raise(self, "AttributeError")
    ELSE Return(self, [i \in 1..Len(points) |->
                          self.radius > 0 /\
                          points[i][1] * points[i][1] + points[i][2] * points[i][2]
                              < self.radius * self.radius])

\* "a and b" on two arrays of N booleans: Python first takes the truth value
\* of a, which numpy refuses (ValueError) unless a has exactly one entry;
\* with one entry the result is a when a[0] is false, b otherwise.  x < s / 2
\* is written 2 * x < s.
RectangularAperture_contains(self, points) ==
    LET a == [i \in 1..Len(points) |-> 2 * Abs(points[i][1]) < self.size_x]
        b == [i \in 1..Len(points) |-> 2 * Abs(points[i][2]) < self.size_y]
    IN  IF Len(points) # 1 THEN Raise(self, "ValueError")
        ELSE Return(self, IF a[1] THEN b ELSE a)

----------------------------------------------------------------------------
(* Surface: sag, intersections, refract *)

PerfectSquare(n) == \E s \in 0..n : s * s = n

\* np.sqrt on the perfect squares, which are the only non-negative arguments
\* the model hands it; np.sqrt of a negative number is nan
Sqrt(n) == CHOOSE s \in 0..n : s * s = n

\* a + np.sqrt(n) and a - np.sqrt(n)
PlusSqrt(a, n) == IF n < 0 THEN NaN ELSE a + Sqrt(n)
MinusSqrt(a, n) == IF n < 0 THEN NaN ELSE a - Sqrt(n)

Surface_sag(self, points) == Raise(self, "NotImplementedError")

SphericalSurface_sag_NoBranch(self, points) ==
    LET r2 == [i \in 1..Len(points) |-> points[i][1] * points[i][1] + points[i][2] * points[i][2]]
    IN  Return(self, [i \in 1..Len(points) |->
                         MinusSqrt(self.radius, self.radius * self.radius - r2[i])])

SphericalSurface_sag(self, points) ==
    LET r2 == [i \in 1..Len(points) |-> points[i][1] * points[i][1] + points[i][2] * points[i][2]]
    IN  IF self.radius < 0
        THEN Return(self, [i \in 1..Len(points) |->
                              PlusSqrt(self.radius, self.radius * self.radius - r2[i])])
        ELSE Return(self, [i \in 1..Len(points) |->
                              MinusSqrt(self.radius, self.radius * self.radius - r2[i])])

FlatSurface_sag(self, points) == Return(self, [i \in 1..Len(points) |-> 0])

\* self.sag(points), dispatched on the class of the surface object
sag(self, points) ==
    IF self.kind = "SphericalSurface" THEN SphericalSurface_sag(self, points)
    ELSE IF self.kind = "FlatSurface" THEN FlatSurface_sag(self, points)
    ELSE Surface_sag(self, points)

\* the attributes of a surface object: what __init__ set, and the methods
SurfaceAttrs(self) ==
    (DOMAIN self \ {"kind"}) \cup {"sag", "normals", "intersections", "refract", "mesh"}

\* Line 69 reads self.normal, which no __init__ sets and no class defines.
Surface_intersections(self, ray_bundle) ==
    LET origins == ray_bundle.origins
        directions == ray_bundle.directions
        origin == self.origin
    IN  IF "normal" \notin SurfaceAttrs(self) THEN Raise(self, "AttributeError")
        ELSE LET normal == self.normal
                 t == [i \in 1..Len(origins) |->
                          Frac(Dot(VSub(origin, origins[i]), normal), Dot(directions[i], normal))]
                 intersection_points ==
                     [i \in 1..Len(origins) |-> PointAt(origins[i], t[i], directions[i])]
             IN  Return(self, intersection_points)

\* refract raises whatever the surface and the bundle are; no class overrides it
Surface_refract(self, ray_bundle) == Raise(self, "NotImplementedError")

----------------------------------------------------------------------------
(* Inputs: the objects and batches the scenarios are run on *)

Ray(origin, direction, length, wavelength_m, power_w) ==
    [origin |-> origin, direction |-> direction, length |-> length,
     wavelength_m |-> wavelength_m, power_w |-> power_w]

\* wavelengths in nm; the first ray is the one of the flat-surface scenario
SampleRays ==
    { Ray(<<0, 0, -1>>, <<0, 0, 1>>, 0, 850, 0),
      Ray(<<1, 0, -1>>, <<1, 0, 0>>, 0, 850, 1),
      Ray(<<-1, 2, 1>>, <<1, -1, 2>>, 3, 633, 2) }

\* the bundle whose rows are the rays rs; its first ray is a display ray
BundleOf(rs) ==
    RayBundle([i \in 1..Len(rs) |-> rs[i].origin],
              [i \in 1..Len(rs) |-> rs[i].direction],
              [i \in 1..Len(rs) |-> rs[i].length],
              [i \in 1..Len(rs) |-> rs[i].wavelength_m],
              [i \in 1..Len(rs) |-> rs[i].power_w],
              <<1>>)

BundlesOfLen(n) == {BundleOf(rs) : rs \in [1..n -> SampleRays]}
Bundles == UNION {BundlesOfLen(n) : n \in 1..MaxRays}

FrameOrigins == {<<0, 0, 0>>, <<1, 0, 0>>, <<3, -2, 1>>}
Frames == [origin : FrameOrigins, rotation : Rotations]

\* a quarter turn about z: orthonormal and not symmetric
QuarterTurn == <<<<0, 1, 0>>, <<-1, 0, 0>>, <<0, 0, 1>>>>

Points2D == (-MaxCoord..MaxCoord) \X (-MaxCoord..MaxCoord)
PointBatches(S) == UNION {[1..n -> S] : n \in 1..MaxRays}

Radii == -MaxRadius..MaxRadius

\* the points where the sphere of radius r has an exactly representable sag,
\* and the points outside the sphere
SagPoints(r) ==
    {p \in Points2D : LET d == r * r - p[1] * p[1] - p[2] * p[2]
                      IN  d < 0 \/ PerfectSquare(d)}

Apertures ==
    {[kind |-> "Aperture"]}
    \cup {CircularAperture(r) : r \in 0..MaxRadius}
    \cup {RectangularAperture(sx, sy) : sx \in 1..MaxRadius, sy \in 1..MaxRadius}

\* index2 = 0 is a mirror, 2 stands for a glass
Indices2 == {0, 2}

SagSurfaces ==
    {Surface(<<0, 0, 0>>, Identity3, CircularAperture(1), 1, 2),
     FlatSurface(<<0, 0, 0>>, Identity3, CircularAperture(1), 1, 2)}
    \cup {SphericalSurface(<<0, 0, 0>>, Identity3, CircularAperture(1), 1, 2, r) : r \in Radii}

RaySurfaces ==
    {Surface(o, Identity3, CircularAperture(1), 1, i2) : o \in FrameOrigins, i2 \in Indices2}
    \cup {FlatSurface(o, Identity3, CircularAperture(1), 1, i2) : o \in FrameOrigins, i2 \in Indices2}
    \cup {SphericalSurface(o, Identity3, CircularAperture(1), 1, i2, r) :
              o \in FrameOrigins, i2 \in Indices2, r \in {-MaxRadius, MaxRadius}}

\* the objects a System is assembled from
SourcePool ==
    {Source(<<-1, 0, 0>>, TestRotation),
     GaussianBeamSource(<<-1, 0, 0>>, TestRotation, 1, 2, 1, 850),
     DerivedSource(<<-1, 0, 0>>, TestRotation)}

SurfacePool ==
    {SphericalSurface(<<1, 0, 0>>, TestRotation, CircularAperture(1), 1, 2, -MaxRadius),
     SphericalSurface(<<2, 0, 0>>, TestRotation, CircularAperture(1), 1, 0, MaxRadius)}

ScreenPool ==
    {Screen(<<3, 0, 0>>, TestRotation, CircularAperture(1)),
     Screen(<<0, 0, 1>>, QuarterTurn, CircularAperture(1))}

NoSample == BundleOf(<<>>)

\* what the sampling of the source may yield for n_rays rays; only a derived
\* source gets as far as returning its sample
SamplesOf(src, n_rays) ==
    IF src.kind = "DerivedSource" THEN BundlesOfLen(n_rays) ELSE {NoSample}

----------------------------------------------------------------------------
(* Initial values of the variables a scenario does not use *)

SystemNew ==
    /\ source = NoSource
    /\ surfaces = <<>>
    /\ screens = <<>>
    /\ rays = <<>>
    /\ outcome = [op |-> "__init__", raised |-> "none"]
    /\ calls = <<>>

NoBundle == rb = None /\ rb0 = None /\ frame = None
NoSurface == surf = None /\ aper = None /\ pts = <<>>
NoCall == ret = None /\ raised = "none" /\ op = "init" /\ locals = None
NoDisplay == object = None /\ show = None

----------------------------------------------------------------------------
(* System scenarios: any sequence of setSource, addSurface, addScreen, propagate *)

Init == SystemNew /\ NoBundle /\ NoSurface /\ NoCall /\ NoDisplay

SetSource ==
    /\ \E s \in SourcePool : source' = s
    /\ outcome' = [op |-> "configure", raised |-> "none"]
    /\ calls' = <<>>
    /\ UNCHANGED <<dispvars, surfaces, screens, rays, rayvars, surfvars, callvars>>

AddSurface ==
    /\ Len(surfaces) < MaxSurfaces
    /\ \E s \in SurfacePool : surfaces' = Append(surfaces, s)
    /\ outcome' = [op |-> "configure", raised |-> "none"]
    /\ calls' = <<>>
    /\ UNCHANGED <<dispvars, source, screens, rays, rayvars, surfvars, callvars>>

AddScreen ==
    /\ Len(screens) < MaxScreens
    /\ \E s \in ScreenPool : screens' = Append(screens, s)
    /\ outcome' = [op |-> "configure", raised |-> "none"]
    /\ calls' = <<>>
    /\ UNCHANGED <<dispvars, source, surfaces, rays, rayvars, surfvars, callvars>>

Propagate ==
    /\ \E n_rays \in 1..MaxRays : \E sample \in SamplesOf(source, n_rays) :
        \E r \in {propagate([source |-> source, surfaces |-> surfaces,
                             screens |-> screens, rays |-> rays], n_rays, sample)} :
            /\ source' = r.self.source
            /\ surfaces' = r.self.surfaces
            /\ screens' = r.self.screens
            /\ rays' = r.self.rays
            /\ outcome' = [op |-> "propagate", raised |-> r.raised,
                           generated |-> r.generated]
            /\ calls' = r.calls
    /\ UNCHANGED <<dispvars, rayvars, surfvars, callvars>>

Next == SetSource \/ AddSurface \/ AddScreen \/ Propagate

Spec == Init /\ [][Next]_vars

----------------------------------------------------------------------------
(* RayBundle and Screen scenarios on one bundle and one frame *)

InitRays ==
    /\ SystemNew /\ NoSurface /\ NoCall /\ NoDisplay
    /\ rb0 \in Bundles
    /\ rb = rb0
    /\ frame \in Frames

CallLocalToGlobal ==
    /\ op = "init"
    /\ LET r == localToGlobal(rb, frame.origin, frame.rotation)
       IN  rb' = r.self /\ ret' = r.ret /\ raised' = r.raised
    /\ op' = "localToGlobal"
    /\ UNCHANGED <<dispvars, sysvars, surfvars, rb0, frame, locals>>

\* the caller builds a bundle from the returned origins and directions
Rebundle ==
    /\ op = "localToGlobal"
    /\ rb' = RayBundle(ret[1], ret[2], rb.lengths, rb.wavelengths_m, rb.powers_w, rb.display_rays)
    /\ op' = "rebundled"
    /\ UNCHANGED <<dispvars, sysvars, surfvars, rb0, frame, ret, raised, locals>>

CallGlobalToLocal ==
    /\ op \in {"init", "rebundled"}
    /\ LET r == globalToLocal(rb, frame.origin, frame.rotation)
       IN  rb' = r.self /\ ret' = r.ret /\ raised' = r.raised
    /\ op' = IF op = "rebundled" THEN "roundtrip" ELSE "globalToLocal"
    /\ UNCHANGED <<dispvars, sysvars, surfvars, rb0, frame, locals>>

CallCapture ==
    /\ op \in {"init", "rebundled"}
    /\ LET r == Screen_capture(Screen(frame.origin, frame.rotation, CircularAperture(1)), rb)
       IN  /\ rb' = r.ray_bundle /\ ret' = r.ret /\ raised' = r.raised
           /\ locals' = [intersection_points |-> r.intersection_points]
    /\ op' = "capture"
    /\ UNCHANGED <<dispvars, sysvars, surfvars, rb0, frame>>

NextRays == CallLocalToGlobal \/ Rebundle \/ CallGlobalToLocal \/ CallCapture

SpecRays == InitRays /\ [][NextRays]_vars

----------------------------------------------------------------------------
(* Surface.sag scenarios *)

InitSag ==
    /\ SystemNew /\ NoBundle /\ NoCall /\ NoDisplay
    /\ surf \in SagSurfaces
    /\ aper = None
    /\ pts \in PointBatches(IF surf.kind = "SphericalSurface"
                            THEN SagPoints(surf.radius) ELSE Points2D)

CallSag ==
    /\ op = "init"
    /\ LET r == sag(surf, pts)
       IN  surf' = r.self /\ ret' = r.ret /\ raised' = r.raised
    /\ op' = "sag"
    /\ UNCHANGED <<dispvars, sysvars, rayvars, aper, pts, locals>>

NextSag == CallSag

SpecSag == InitSag /\ [][NextSag]_vars

----------------------------------------------------------------------------
(* Aperture.contains scenarios *)

contains(self, points) ==
    IF self.kind = "CircularAperture" THEN CircularAperture_contains(self, points)
    ELSE IF self.kind = "RectangularAperture" THEN RectangularAperture_contains(self, points)
    ELSE Aperture_contains(self, points)

InitAper ==
    /\ SystemNew /\ NoBundle /\ NoCall /\ NoDisplay
    /\ surf = None
    /\ aper \in Apertures
    /\ pts \in PointBatches(Points2D)

CallContains ==
    /\ op = "init"
    /\ LET r == contains(aper, pts)
       IN  aper' = r.self /\ ret' = r.ret /\ raised' = r.raised
    /\ op' = "contains"
    /\ UNCHANGED <<dispvars, sysvars, rayvars, surf, pts, locals>>

NextAper == CallContains

SpecAper == InitAper /\ [][NextAper]_vars

----------------------------------------------------------------------------
(* Surface.intersections and Surface.refract scenarios, bundle in local coordinates *)

InitSurf ==
    /\ SystemNew /\ NoCall /\ NoDisplay
    /\ surf \in RaySurfaces
    /\ aper = None
    /\ pts = <<>>
    /\ rb0 \in Bundles
    /\ rb = rb0
    /\ frame = None

CallIntersections ==
    /\ op = "init"
    /\ LET r == Surface_intersections(surf, rb)
       IN  surf' = r.self /\ ret' = r.ret /\ raised' = r.raised
    /\ op' = "intersections"
    /\ UNCHANGED <<dispvars, sysvars, rayvars, aper, pts, locals>>

CallRefract ==
    /\ op = "init"
    /\ LET r == Surface_refract(surf, rb)
       IN  surf' = r.self /\ ret' = r.ret /\ raised' = r.raised
    /\ op' = "refract"
    /\ UNCHANGED <<dispvars, sysvars, rayvars, aper, pts, locals>>

NextSurf == CallIntersections \/ CallRefract

SpecSurf == InitSurf /\ [][NextSurf]_vars

----------------------------------------------------------------------------
(* RayBundle.normalizeDirections on float arrays: every entry is a fraction *)

RECURSIVE Gcd(_, _)
Gcd(a, b) == IF b = 0 THEN a ELSE Gcd(b, a % b)

\* the float of value n / d: the fraction in lowest terms with d > 0;
\* 0 / 0 is nan (the fraction 0/0), x / 0 is +-inf (the fraction +-1/0)
Float(n, d) ==
    LET g == Gcd(Abs(n), Abs(d))
    IN  IF g = 0 THEN Frac(0, 0)
        ELSE IF d < 0 THEN Frac((-n) \div g, (-d) \div g)
        ELSE Frac(n \div g, d \div g)

\* a / b on floats
FracDiv(a, b) == Float(a.num * b.den, a.den * b.num)

IsFinite(a) == a.den # 0

\* the squared length of one row, over the common denominator of its entries
SquaredNorm(row) ==
    LET d == row[1].den * row[2].den * row[3].den
        s == row[1].num * row[1].num * row[2].den * row[2].den * row[3].den * row[3].den
             + row[2].num * row[2].num * row[1].den * row[1].den * row[3].den * row[3].den
             + row[3].num * row[3].num * row[1].den * row[1].den * row[2].den * row[2].den
    IN  Frac(s, d * d)

\* np.linalg.norm(directions, axis=1): one norm per row
Norms(directions) ==
    [i \in 1..Len(directions) |->
        LET n2 == SquaredNorm(directions[i])
        IN  Frac(Sqrt(n2.num), Sqrt(n2.den))]

normalizeDirections_NoSqrt(self) ==
    LET norm == [i \in 1..Len(self.directions) |-> SquaredNorm(self.directions[i])]
    IN  Return([self EXCEPT !.directions =
                    [i \in 1..Len(self.directions) |->
                        [c \in 1..3 |-> FracDiv(self.directions[i][c], norm[i])]]],
               None)

\* self.directions /= norm[:, np.newaxis], in place; numpy divides by a zero
\* norm with a warning and no exception
normalizeDirections(self) ==
    LET norm == Norms(self.directions)
    IN  Return([self EXCEPT !.directions =
                    [i \in 1..Len(self.directions) |->
                        [c \in 1..3 |-> FracDiv(self.directions[i][c], norm[i])]]],
               None)

Coords == (-MaxCoord)..MaxCoord

\* direction vectors whose length is a whole number, the zero vector included
WholeDirections ==
    {d \in Coords \X Coords \X Coords : PerfectSquare(Dot(d, d))}

FloatRow(d) == [c \in 1..3 |-> Frac(d[c], 1)]

\* the bundle of float rows with directions ds; the other columns differ
\* from ray to ray
FloatBundle(ds) ==
    RayBundle([i \in 1..Len(ds) |-> FloatRow(<<i, -i, 1>>)],
              [i \in 1..Len(ds) |-> FloatRow(ds[i])],
              [i \in 1..Len(ds) |-> i],
              [i \in 1..Len(ds) |-> 633 + i],
              [i \in 1..Len(ds) |-> 2 * i],
              <<1>>)

InitNorm ==
    /\ SystemNew /\ NoSurface /\ NoCall /\ NoDisplay
    /\ \E n \in 1..MaxRays : \E ds \in [1..n -> WholeDirections] :
           rb0 = FloatBundle(ds) /\ rb = rb0
    /\ frame = None

CallNormalizeDirections ==
    /\ op \in {"init", "normalized"}
    /\ LET r == normalizeDirections(rb)
       IN  rb' = r.self /\ ret' = r.ret /\ raised' = r.raised
    /\ op' = IF op = "init" THEN "normalized" ELSE "renormalized"
    /\ UNCHANGED <<dispvars, sysvars, surfvars, rb0, frame, locals>>

NextNorm == CallNormalizeDirections

SpecNorm == InitNorm /\ [][NextNorm]_vars

----------------------------------------------------------------------------
(* Meshes and display.  A mesh is kept at the points of the grid that are  *)
(* exact; a scene is the sequence of the plotly traces it is made of.      *)

Aperture_mesh(self) == Raise(self, "NotImplementedError")

\* rgrid * cos(thetagrid), rgrid * sin(thetagrid): the centre (r = 0) and the
\* rim point at theta = 0 (r = radius)
CircularAperture_mesh(self) == Return(self, <<<<0, 0>>, <<self.radius, 0>>>>)

\* self.aperture.mesh(), dispatched on the class of the aperture object (the
\* apertures of the display scenarios are circular or of the base class)
aperture_mesh(self) ==
    IF self.kind = "CircularAperture" THEN CircularAperture_mesh(self)
    ELSE Aperture_mesh(self)

\* the sag of self at p is a whole number or nan
ExactSag(self, p) ==
    self.kind = "SphericalSurface" =>
        LET d == self.radius * self.radius - p[1] * p[1] - p[2] * p[2]
        IN  d < 0 \/ PerfectSquare(d)

\* Surface.mesh: the aperture's mesh with z = self.sag(points2d)
Surface_mesh(self) ==
    LET a == aperture_mesh(self.aperture)
        points2d == SelectSeq(a.ret, LAMBDA p : ExactSag(self, p))
        zs == sag(self, points2d)
    IN  IF a.raised # "none" THEN Raise(self, a.raised)
        ELSE IF zs.raised # "none" THEN Raise(self, zs.raised)
        ELSE Return(self, [i \in 1..Len(points2d) |->
                              <<points2d[i][1], points2d[i][2], zs.ret[i]>>])

\* Screen.mesh: the aperture's mesh at z = 0, moved to global coordinates by
\* np.matmul(points_local, self.rotation.T) + self.origin
Screen_mesh(self) ==
    LET a == aperture_mesh(self.aperture)
    IN  IF a.raised # "none" THEN Raise(self, a.raised)
        ELSE Return(self, [i \in 1..Len(a.ret) |->
                              VAdd(RowTimes(<<a.ret[i][1], a.ret[i][2], 0>>,
                                            Transpose(self.rotation)),
                                   self.origin)])

Traces(flag, traces) == IF flag THEN traces ELSE <<>>

surfaceSceneData(surface, show_surface, show_contours, show_wireframe, show_normals) ==
    LET m == Surface_mesh(surface)
    IN  IF m.raised # "none" THEN Raise(surface, m.raised)
        ELSE Return(surface,
                    Traces(show_surface, <<"Mesh3d">>)
                    \o Traces(show_wireframe, <<"Scatter3d">>)
                    \o Traces(show_contours, <<"Scatter3d">>)
                    \o Traces(show_normals, <<"Scatter3d", "Scatter3d">>))

\* line_data appends three traces: bound rays, unbound rays, their dashes
line_data == <<"Scatter3d", "Scatter3d", "Scatter3d">>

\* opacity = min(300 / len(indexes), 1.0) with indexes the rays that are not
\* display rays
rayBundleSceneData(rays_, show_display_rays, show_all_rays) ==
    LET indexes == (1..NRays(rays_)) \ {rays_.display_rays[k] : k \in DOMAIN rays_.display_rays}
    IN  IF show_all_rays /\ indexes = {} THEN Raise(rays_, "ZeroDivisionError")
        ELSE Return(rays_, Traces(show_display_rays, line_data)
                           \o Traces(show_all_rays, line_data))

screenSceneData(screen, show_contours, show_surface, show_screen_intersections) ==
    LET m == Screen_mesh(screen)
    IN  IF m.raised # "none" THEN Raise(screen, m.raised)
        ELSE Return(screen, Traces(show_surface, <<"Mesh3d">>)
                            \o Traces(show_contours, <<"Scatter3d">>))

\* the classes an object of class cls is an instance of
Bases(cls) ==
    IF cls \in {"SphericalSurface", "FlatSurface"} THEN {cls, "Surface", "object"}
    ELSE IF cls \in {"CircularAperture", "RectangularAperture"} THEN {cls, "Aperture", "object"}
    ELSE IF cls \in {"GaussianBeamSource", "DerivedSource"} THEN {cls, "Source", "object"}
    ELSE {cls, "object"}

\* a value together with its class
Object(cls, value) == [class |-> cls, value |-> value]

isinstance(obj, cls) == cls \in Bases(obj.class)

RECURSIVE Flatten(_)
Flatten(seqs) == IF seqs = <<>> THEN <<>> ELSE Head(seqs) \o Flatten(Tail(seqs))

\* the three loops of the System branch: the first call that raises ends
\* them, otherwise the scenes are concatenated
SceneOf(results) ==
    IF \E k \in 1..Len(results) : results[k].raised # "none"
    THEN Raise(None, results[CHOOSE k \in 1..Len(results) :
                                 /\ results[k].raised # "none"
                                 /\ \A j \in 1..(k - 1) : results[j].raised = "none"].raised)
    ELSE Return(None, Flatten([k \in 1..Len(results) |-> results[k].ret]))

\* display: four "if isinstance" statements in a row, the "else" belonging
\* to the last of them; then the layout, the figure and plot(fig).  The
\* result carries the figure's traces in 'fig' when plot was reached.
display(obj, show_surface, show_contours, show_wireframe, show_normals, show_display_rays, show_all_rays, show_screen_intersections) ==
    LET system == obj.value
        s1 == IF isinstance(obj, "Surface")
              THEN surfaceSceneData(obj.value, show_surface, show_contours,
                                    show_wireframe, show_normals)
              ELSE Return(None, None)
        s2 == IF isinstance(obj, "RayBundle")
              THEN rayBundleSceneData(obj.value, show_display_rays, show_all_rays)
              ELSE Return(None, None)
        s3 == IF isinstance(obj, "Screen")
              THEN screenSceneData(obj.value, show_contours, show_surface,
                                   show_screen_intersections)
              ELSE Return(None, None)
        s4 == IF isinstance(obj, "System")
              THEN SceneOf([k \in 1..Len(system.surfaces) |->
                               surfaceSceneData(system.surfaces[k], show_surface,
                                                show_contours, show_wireframe, show_normals)]
                           \o [k \in 1..Len(system.screens) |->
                               screenSceneData(system.screens[k], show_contours,
                                               show_surface, show_screen_intersections)]
                           \o [k \in 1..Len(system.rays) |->
                               rayBundleSceneData(system.rays[k], show_display_rays,
                                                  show_all_rays)])
              ELSE Raise(None, "NotImplementedError")
        out(exc, fig) == [raised |-> exc, self |-> obj, ret |-> None,
                          plotted |-> exc = "none", fig |-> fig]
    IN  IF s1.raised # "none" THEN out(s1.raised, None)
        ELSE IF s2.raised # "none" THEN out(s2.raised, None)
        ELSE IF s3.raised # "none" THEN out(s3.raised, None)
        ELSE IF s4.raised # "none" THEN out(s4.raised, None)
        ELSE out("none", s4.ret)

\* the objects handed to display
DisplaySurfaces ==
    SagSurfaces \cup SurfacePool
    \cup {SphericalSurface(<<0, 0, 0>>, Identity3, [kind |-> "Aperture"], 1, 2, MaxRadius)}

DisplayScreens ==
    ScreenPool \cup {Screen(<<0, 0, 0>>, Identity3, [kind |-> "Aperture"])}

System(source_, surfaces_, screens_, rays_) ==
    [source |-> source_, surfaces |-> surfaces_, screens |-> screens_, rays |-> rays_]

DisplaySystems ==
    {System(NoSource, <<>>, <<>>, <<>>)}
    \cup {System(src, <<sf>>, <<sc>>, <<>>) :
              src \in SourcePool, sf \in SurfacePool, sc \in ScreenPool}
    \cup {System(DerivedSource(<<-1, 0, 0>>, TestRotation), <<>>, <<sc>>, <<b>>) :
              sc \in DisplayScreens, b \in BundlesOfLen(1)}

DisplayObjects ==
    {Object(sf.kind, sf) : sf \in DisplaySurfaces}
    \cup {Object("RayBundle", b) : b \in Bundles}
    \cup {Object("Screen", sc) : sc \in DisplayScreens}
    \cup {Object("System", sy) : sy \in DisplaySystems}
    \cup {Object(a.kind, a) : a \in Apertures}
    \cup {Object(src.kind, src) : src \in SourcePool}
    \cup {Object("NoneType", NoSource), Object("str", [kind |-> "str"])}

Shows ==
    [show_surface : BOOLEAN, show_contours : BOOLEAN, show_wireframe : BOOLEAN,
     show_normals : BOOLEAN, show_display_rays : BOOLEAN, show_all_rays : BOOLEAN,
     show_screen_intersections : {FALSE}]

InitDisplay ==
    /\ SystemNew /\ NoBundle /\ NoSurface /\ NoCall
    /\ object \in DisplayObjects
    /\ show \in Shows

CallDisplay ==
    /\ op = "init"
    /\ \E r \in {display(object, show.show_surface, show.show_contours,
                         show.show_wireframe, show.show_normals, show.show_display_rays,
                         show.show_all_rays, show.show_screen_intersections)} :
           /\ ret' = r.ret
           /\ raised' = r.raised
           /\ locals' = [plotted |-> r.plotted, fig |-> r.fig]
    /\ op' = "display"
    /\ UNCHANGED <<dispvars, sysvars, rayvars, surfvars>>

NextDisplay == CallDisplay

SpecDisplay == InitDisplay /\ [][NextDisplay]_vars

----------------------------------------------------------------------------
(* Screen.mesh scenarios: a screen in the frame 'frame' with aperture 'aper' *)

\* the apertures whose mesh the model computes
MeshApertures == {a \in Apertures : a.kind # "RectangularAperture"}

InitMesh ==
    /\ SystemNew /\ NoCall /\ NoDisplay
    /\ rb = None /\ rb0 = None
    /\ frame \in Frames
    /\ surf = None
    /\ aper \in MeshApertures
    /\ pts = <<>>

CallMesh ==
    /\ op = "init"
    /\ LET r == Screen_mesh(Screen(frame.origin, frame.rotation, aper))
       IN  ret' = r.ret /\ raised' = r.raised
    /\ op' = "mesh"
    /\ UNCHANGED <<dispvars, sysvars, rayvars, surfvars, locals>>

NextMesh == CallMesh

SpecMesh == InitMesh /\ [][NextMesh]_vars

----------------------------------------------------------------------------
(* Properties *)

Sign(x) == IF x < 0 THEN -1 ELSE IF x > 0 THEN 1 ELSE 0

\* C1 (SpecRays): for every orthonormal rotation and every origin, converting
\* a bundle with localToGlobal and converting the resulting origins and
\* directions back with globalToLocal returns the original origins and the
\* original directions.
C1_RoundTrip ==
    op = "roundtrip" => (ret[1] = rb0.origins /\ ret[2] = rb0.directions)

C1_Witness ==
    /\ op = "roundtrip"
    /\ frame.rotation # Transpose(frame.rotation)
    /\ frame.origin # <<0, 0, 0>>
    /\ NRays(rb0) > 1

\* C2 (Spec): on a System with a GaussianBeamSource set, one SphericalSurface
\* and one Screen added, propagate(n) with n > 0 returns without raising and
\* System.rays holds the one bundle the source generated.
C2_TestScenarioPropagates ==
    ( /\ outcome.op = "propagate"
      /\ source.kind = "GaussianBeamSource"
      /\ Len(surfaces) = 1 /\ surfaces[1].kind = "SphericalSurface"
      /\ Len(screens) = 1 )
    => (outcome.raised = "none" /\ Len(rays) = 1 /\ NRays(rays[1]) > 0)

\* C3 (Spec): after a propagate that returned, System.rays holds the source
\* bundle followed by one bundle per registered Surface (k + 1 bundles for k
\* surfaces).
C3_FullHistory ==
    (outcome.op = "propagate" /\ outcome.raised = "none")
    => Len(rays) = Len(surfaces) + 1

\* the screens whose capture call returned during the last operation, in call order
CapturedScreens ==
    LET done == SelectSeq(calls, LAMBDA c : c.fn = "capture" /\ c.raised = "none")
    IN  [k \in 1..Len(done) |-> done[k].screen]

\* C4 (Spec): in every propagate call each registered Screen captures the
\* source bundle exactly once, in registration order: none is skipped,
\* captured twice or captured out of order.
C4_ScreensInOrder ==
    outcome.op = "propagate" => CapturedScreens = [i \in 1..Len(screens) |-> i]

\* C5 (SpecRays): Screen.capture never changes the bundle it is given, whether
\* it returns or raises: origins, directions, lengths, wavelengths_m,
\* powers_w and display_rays are what they were before the call.
C5_CaptureReadOnly ==
    [][op' = "capture" =>
         /\ rb'.origins = rb.origins
         /\ rb'.directions = rb.directions
         /\ rb'.lengths = rb.lengths
         /\ rb'.wavelengths_m = rb.wavelengths_m
         /\ rb'.powers_w = rb.powers_w
         /\ rb'.display_rays = rb.display_rays]_vars

C5_Witness ==
    /\ op = "capture"
    /\ raised = "none"
    /\ NRays(rb) > 1
    /\ frame.rotation # Identity3
    /\ frame.origin # <<0, 0, 0>>

\* C6 (SpecRays): localToGlobal and globalToLocal leave lengths,
\* wavelengths_m, powers_w and display_rays of the bundle unchanged, for
\* every origin and rotation.
C6_FrameInvariantColumns ==
    [][op' \in {"localToGlobal", "globalToLocal", "roundtrip"} =>
         /\ rb'.lengths = rb.lengths
         /\ rb'.wavelengths_m = rb.wavelengths_m
         /\ rb'.powers_w = rb.powers_w
         /\ rb'.display_rays = rb.display_rays]_vars

C6_Witness ==
    /\ op = "localToGlobal"
    /\ \E i \in 1..NRays(rb) : rb.lengths[i] # 0
    /\ frame.rotation # Identity3

\* C7 (SpecAper): CircularAperture(radius = r).contains(points) returns one
\* boolean per point, true exactly when x^2 + y^2 < r^2 (the boundary is a
\* miss).
C7_CircularContains ==
    (op = "contains" /\ aper.kind = "CircularAperture")
    => /\ raised = "none"
       /\ Len(ret) = Len(pts)
       /\ \A i \in 1..Len(pts) :
              ret[i] = (pts[i][1] * pts[i][1] + pts[i][2] * pts[i][2]
                            < aper.radius * aper.radius)

\* C8 (SpecSag): for a sphere of radius R of either sign and every point with
\* x^2 + y^2 <= R^2, sag is R - sign(R) * sqrt(R^2 - x^2 - y^2); at (0, 0)
\* it is 0 for every non-zero R.
C8_SphereSag ==
    (op = "sag" /\ surf.kind = "SphericalSurface")
    => /\ raised = "none"
       /\ Len(ret) = Len(pts)
       /\ \A i \in 1..Len(pts) :
              LET d == surf.radius * surf.radius - pts[i][1] * pts[i][1] - pts[i][2] * pts[i][2]
              IN  /\ d >= 0 => ret[i] = surf.radius - Sign(surf.radius) * Sqrt(d)
                  /\ (pts[i] = <<0, 0>> /\ surf.radius # 0) => ret[i] = 0

C8_Witness ==
    /\ op = "sag"
    /\ surf.kind = "SphericalSurface"
    /\ surf.radius < 0
    /\ \E i \in 1..Len(pts) :
           /\ pts[i] # <<0, 0>>
           /\ surf.radius * surf.radius - pts[i][1] * pts[i][1] - pts[i][2] * pts[i][2] > 0
           /\ ret[i] < 0

\* C9 (SpecSurf): for a plane (sag = 0 everywhere) at the local origin,
\* intersections returns for every ray with d.z # 0 the point o + t * d with
\* t = -o.z / d.z; the ray from (0, 0, -1) along (0, 0, 1) meets it at t = 1,
\* in (0, 0, 0).
C9_FlatIntersection ==
    (op = "intersections" /\ surf.kind = "FlatSurface" /\ surf.origin = <<0, 0, 0>>)
    => /\ raised = "none"
       /\ \A i \in 1..NRays(rb) :
              rb.directions[i][3] # 0 =>
                  LET t == Frac(-rb.origins[i][3], rb.directions[i][3])
                      p == PointAt(rb.origins[i], t, rb.directions[i])
                  IN  \A c \in 1..3 : FracEq(ret[i][c], p[c])

\* C10 (SpecSurf): for a mirror (index2 = 0), refract returns for every ray
\* the direction d - 2 (d.n) n; on a plane, whose normal is (0, 0, 1), the
\* direction (0, 0, 1) comes back as (0, 0, -1).
C10_MirrorReflects ==
    (op = "refract" /\ surf.index2 = 0 /\ surf.kind = "FlatSurface")
    => /\ raised = "none"
       /\ \A i \in 1..NRays(rb) :
              LET n == <<0, 0, 1>>
                  d == rb.directions[i]
              IN  ret.directions[i] = VSub(d, VScale(2 * Dot(d, n), n))

\* no direction of the bundle is the zero vector
NoZeroDirection(b) ==
    \A i \in 1..NRays(b) : \E c \in 1..3 : b.directions[i][c].num # 0

UnitNorm(row) ==
    /\ \A c \in 1..3 : IsFinite(row[c])
    /\ FracEq(SquaredNorm(row), Frac(1, 1))

\* C11 (SpecNorm): on a bundle with no zero-length direction,
\* normalizeDirections is idempotent: after one call every direction has
\* norm 1, a second call leaves every direction equal to what the first
\* produced, and origins, lengths, wavelengths_m, powers_w and display_rays
\* are unchanged by either call.
C11_NormalizeIdempotent ==
    /\ []((op \in {"normalized", "renormalized"} /\ NoZeroDirection(rb0))
          => /\ raised = "none"
             /\ \A i \in 1..NRays(rb) : UnitNorm(rb.directions[i]))
    /\ [][(op' = "renormalized" /\ NoZeroDirection(rb0))
          => \A i \in 1..NRays(rb) : \A c \in 1..3 :
                 FracEq(rb'.directions[i][c], rb.directions[i][c])]_vars
    /\ [][(op' \in {"normalized", "renormalized"} /\ NoZeroDirection(rb0))
          => /\ rb'.origins = rb.origins
             /\ rb'.lengths = rb.lengths
             /\ rb'.wavelengths_m = rb.wavelengths_m
             /\ rb'.powers_w = rb.powers_w
             /\ rb'.display_rays = rb.display_rays]_vars

C11_Witness ==
    /\ op = "renormalized"
    /\ NoZeroDirection(rb0)
    /\ NRays(rb0) > 1
    /\ \E i \in 1..NRays(rb0) : ~UnitNorm(rb0.directions[i])
    /\ \E i \in 1..NRays(rb0) : \A c \in 1..3 : rb0.directions[i][c].num # 0

\* C15 (SpecNorm): normalizeDirections on a bundle with a zero-length
\* direction fails with an error: it does not return normally leaving
\* non-finite values in directions.
C15_ZeroDirectionFails ==
    (op = "normalized" /\ ~NoZeroDirection(rb0))
    => /\ raised # "none"
       /\ \A i \in 1..NRays(rb) : \A c \in 1..3 : IsFinite(rb.directions[i][c])

\* C12 (SpecSurf): Surface.intersections on a bundle of N rays completes
\* without raising and returns N results, whatever the directions of the
\* rays (rays parallel to the surface included).
C12_IntersectionsTotal ==
    op = "intersections" => (raised = "none" /\ Len(ret) = NRays(rb))

\* directions of the bundle b in the frame of the screen scr
LocalDirections(b, scr) == globalToLocal(b, scr.origin, scr.rotation).ret[2]
LocalOrigins(b, scr) == globalToLocal(b, scr.origin, scr.rotation).ret[1]

\* ray i of b runs parallel to the plane of scr: |local dz| <= 1e-6
ParallelTo(b, scr, i) == ~AboveThreshold(LocalDirections(b, scr)[i][3])

\* C13 (SpecRays): Screen.capture on a bundle with at least one ray parallel
\* to the screen plane and at least one that is not returns without raising,
\* and the intersection point of every non-parallel ray i is o_i + t_i * d_i
\* with t_i = -o_i.z / d_i.z computed from that same ray.
C13_MixedCapture ==
    LET scr == Screen(frame.origin, frame.rotation, CircularAperture(1))
        n == NRays(rb)
    IN  ( /\ op = "capture"
          /\ \E i \in 1..n : ParallelTo(rb, scr, i)
          /\ \E i \in 1..n : ~ParallelTo(rb, scr, i) )
        => /\ raised = "none"
           /\ Len(locals.intersection_points) = n
           /\ \A i \in 1..n :
                  ~ParallelTo(rb, scr, i) =>
                      LET o == LocalOrigins(rb, scr)[i]
                          d == LocalDirections(rb, scr)[i]
                          p == PointAt(o, Frac(-o[3], d[3]), d)
                      IN  \A c \in 1..3 : FracEq(locals.intersection_points[i][c], p[c])

\* what a Screen holds besides the attributes its constructor sets
CaptureState(scr) ==
    [a \in DOMAIN scr \ {"origin", "rotation", "aperture"} |-> scr[a]]

\* C14 (Spec): after a propagate that returned, every Screen that was handed
\* a ray not parallel to its plane holds the captured intersection
\* coordinates, so that they can be read back from the Screen.
C14_ScreenHoldsPoints ==
    (outcome.op = "propagate" /\ outcome.raised = "none")
    => \A k \in 1..Len(screens) :
           (\E i \in 1..NRays(rays[1]) : ~ParallelTo(rays[1], screens[k], i))
           => DOMAIN CaptureState(screens[k]) # {}

\* C17 (SpecAper): RectangularAperture(size_x, size_y).contains(points)
\* returns, for every batch of N >= 1 points, N booleans, the i-th true
\* exactly when |x_i| < size_x / 2 and |y_i| < size_y / 2; it never raises.
C17_RectangularContains ==
    (op = "contains" /\ aper.kind = "RectangularAperture")
    => /\ raised = "none"
       /\ Len(ret) = Len(pts)
       /\ \A i \in 1..Len(pts) :
              ret[i] = (2 * Abs(pts[i][1]) < aper.size_x /\ 2 * Abs(pts[i][2]) < aper.size_y)

\* the kinds of object display is written for
Displayable(obj) ==
    \/ isinstance(obj, "Surface")
    \/ isinstance(obj, "RayBundle")
    \/ isinstance(obj, "Screen")
    \/ isinstance(obj, "System")

\* C16 (SpecDisplay): display(object) raises NotImplementedError exactly when
\* the object is none of Surface, RayBundle, Screen and System; for an object
\* of one of these four kinds it builds the scene and reaches plot without
\* raising NotImplementedError.
C16_DisplayDispatch ==
    op = "display"
    => /\ (raised = "NotImplementedError") <=> ~Displayable(object)
       /\ Displayable(object) => (raised = "none" => locals.plotted)

\* C18 (Spec): a propagate that raises leaves no partial result: System.rays
\* and what every Screen has captured are what they were before the call.
C18_AbortLeavesNoTrace ==
    [][(outcome'.op = "propagate" /\ outcome'.raised # "none")
       => /\ rays' = rays
          /\ Len(screens') = Len(screens)
          /\ \A k \in 1..Len(screens) :
                 CaptureState(screens'[k]) = CaptureState(screens[k])]_vars

\* C19 (Spec): System.rays is empty until the first propagate call
\* (setSource, addSurface and addScreen leave it alone), and every propagate
\* that returns replaces it by the one bundle generate returned in that call:
\* earlier bundles are dropped, never accumulated.
C19_RaysReplaced ==
    /\ rays = <<>>
    /\ [][outcome'.op = "configure" => rays' = rays]_vars
    /\ [][(outcome'.op = "propagate" /\ outcome'.raised = "none")
          => rays' = <<outcome'.generated>>]_vars

C19_Witness ==
    /\ outcome.op = "propagate"
    /\ outcome.raised = "none"
    /\ Len(screens) > 0
    /\ NRays(outcome.generated) > 1
    /\ rays = <<outcome.generated>>

RaysFrom(points) ==
    RayBundle(points,
              [i \in 1..Len(points) |-> <<0, 0, 1>>],
              [i \in 1..Len(points) |-> 0],
              [i \in 1..Len(points) |-> 850],
              [i \in 1..Len(points) |-> 0],
              <<>>)

\* the local points (x, y, 0) of the mesh of an aperture
LocalMesh(a) ==
    LET m == aperture_mesh(a).ret
    IN  [i \in 1..Len(m) |-> <<m[i][1], m[i][2], 0>>]

\* C21 (SpecMesh): for every orthonormal rotation and every origin, each
\* point Screen.mesh returns is RayBundle.localToGlobal(origin, rotation)
\* applied to the local point (x, y, 0) of the aperture mesh, and
\* globalToLocal(origin, rotation) takes the mesh points back to (x, y, 0).
C21_MeshMatchesRays ==
    (op = "mesh" /\ raised = "none")
    => /\ ret = localToGlobal(RaysFrom(LocalMesh(aper)), frame.origin, frame.rotation).ret[1]
       /\ globalToLocal(RaysFrom(ret), frame.origin, frame.rotation).ret[1] = LocalMesh(aper)

====
